---- MODULE Spec2Model ----
(***************************************************************************)
(* The data-contract mapper of azurelinuxagent/protocol/common.py:         *)
(* set_properties (Inflate) and get_properties (Deflate) over the entity   *)
(* classes declared in that file.                                          *)
(*                                                                         *)
(* Python objects live in a heap: a sequence of cells addressed by their   *)
(* index.  An entity instance, a DataContractList, a dict and a list are   *)
(* cells; strings and None are immutable and are stored inline in slots.   *)
(* A mapping handed to set_properties is only read by it, so it is given   *)
(* as a value (a tagged tree).                                             *)
(***************************************************************************)
EXTENDS Integers, Sequences, FiniteSets, TLC

VARIABLES heap, root, rootType, copy, out, last, pre, order

vars == <<heap, root, rootType, copy, out, last, pre, order>>

(***************************************************************************)
(* Bounds of the model.                                                    *)
(***************************************************************************)
\* operations applied after construction
MaxOps == 2
\* elements of a sequence in an input mapping
MaxLen == 2

(***************************************************************************)
(* Slots: what an attribute, a dict entry or a variable holds.             *)
(***************************************************************************)
NoneS == [tag |-> "none", val |-> "", addr |-> 0]
Scalar(s) == [tag |-> "scalar", val |-> s, addr |-> 0]
Ref(a) == [tag |-> "ref", val |-> "", addr |-> a]

(***************************************************************************)
(* Values: the untyped data of a mapping (parsed JSON).                    *)
(***************************************************************************)
VNone == [tag |-> "none", val |-> "", items |-> <<>>, elems |-> <<>>]
VS(s) == [tag |-> "scalar", val |-> s, items |-> <<>>, elems |-> <<>>]
VDict(f) == [tag |-> "dict", val |-> "", items |-> f, elems |-> <<>>]
VList(s) == [tag |-> "list", val |-> "", items |-> <<>>, elems |-> s]
VObj(T, f) == [tag |-> "obj", val |-> T, items |-> f, elems |-> <<>>]

(***************************************************************************)
(* Cells.  attrs is an ordered sequence of <<name, slot>> pairs (the       *)
(* instance __dict__ of an object, the entries of a dict); items is the    *)
(* sequence of addresses a list holds.                                     *)
(***************************************************************************)
ObjCell(T) == [kind |-> "obj", type |-> T, attrs |-> <<>>, items |-> <<>>]
DataContractList(T) == [kind |-> "dclist", type |-> T, attrs |-> <<>>, items |-> <<>>]
DictCell == [kind |-> "dict", type |-> "", attrs |-> <<>>, items |-> <<>>]
ListCell == [kind |-> "list", type |-> "", attrs |-> <<>>, items |-> <<>>]

Names(ps) == {ps[i][1] : i \in 1..Len(ps)}
IndexOf(ps, name) == CHOOSE i \in 1..Len(ps) : ps[i][1] = name
Lookup(ps, name) == ps[IndexOf(ps, name)][2]

\* obj.name = v / d[name] = v : overwrite in place, or add at the end
Store(ps, name, v) ==
  IF name \in Names(ps)
  THEN [ps EXCEPT ![IndexOf(ps, name)] = <<name, v>>]
  ELSE Append(ps, <<name, v>>)

SetAttr(h, a, name, v) == [h EXCEPT ![a].attrs = Store(h[a].attrs, name, v)]

Reverse(s) == [i \in 1..Len(s) |-> s[Len(s) + 1 - i]]

(***************************************************************************)
(* The entity classes: each __init__ as the ordered list of the attributes *)
(* it sets.  kind "scalar": a constructor argument defaulting to None (Sc) *)
(* or the constant None (Un); "entity": a nested instance constructed in   *)
(* place; "list": a DataContractList of the given item type.               *)
(***************************************************************************)
Sc(n) == [name |-> n, kind |-> "scalar", type |-> "", arg |-> TRUE]
Un(n) == [name |-> n, kind |-> "scalar", type |-> "", arg |-> FALSE]
En(n, T) == [name |-> n, kind |-> "entity", type |-> T, arg |-> FALSE]
Li(n, T) == [name |-> n, kind |-> "list", type |-> T, arg |-> FALSE]

VmInfo == <<Sc("subscriptionId"), Sc("vmName")>>
Cert == <<Sc("name"), Sc("thumbprint"), Sc("certificateDataUri")>>
CertList == <<Li("certificates", "Cert")>>
ExtensionSettings ==
  <<Sc("name"), Sc("sequenceNumber"), Sc("publicSettings"),
    Sc("privateSettings"), Sc("certificateThumbprint")>>
ExtensionProperties ==
  <<Un("version"), Un("upgradePolicy"), Un("state"),
    Li("extensions", "ExtensionSettings")>>
ExtensionVersionUri == <<Un("uri")>>
Extension ==
  <<Sc("name"), En("properties", "ExtensionProperties"),
    Li("versionUris", "ExtensionVersionUri")>>
ExtensionList == <<Li("extensions", "Extension")>>
ExtensionPackageUri == <<Sc("uri")>>
ExtensionPackage == <<Sc("version"), Li("uris", "ExtensionPackageUri")>>
ExtensionPackageList == <<Li("versions", "ExtensionPackage")>>
InstanceMetadata ==
  <<Sc("deploymentName"), Sc("roleName"), Sc("roleInstanceId"),
    Sc("containerId")>>
VMProperties == <<Sc("certificateThumbprint")>>
ProvisionStatus ==
  <<Sc("status"), Sc("subStatus"), Sc("description"),
    En("properties", "VMProperties")>>
VMAgentStatus == <<Sc("agentVersion"), Sc("status"), Sc("message")>>
ExtensionSubStatus ==
  <<Sc("name"), Sc("status"), Sc("code"), Sc("message")>>
ExtensionStatus ==
  <<Sc("name"), Sc("configurationAppliedTime"), Sc("operation"),
    Sc("status"), Sc("code"), Sc("sequenceNumber"),
    Li("substatusList", "ExtensionSubStatus")>>
ExtensionHandlerStatus ==
  <<Sc("handlerName"), Sc("handlerVersion"), Sc("status"), Sc("message"),
    Li("extensionStatusList", "ExtensionStatus")>>
VMStatus ==
  <<En("vmAgent", "VMAgentStatus"),
    Li("extensionHandlers", "ExtensionHandlerStatus")>>
TelemetryEventParam == <<Sc("name"), Sc("value")>>
TelemetryEvent ==
  <<Sc("eventId"), Sc("providerId"),
    Li("parameters", "TelemetryEventParam")>>
TelemetryEventList == <<Li("events", "TelemetryEvent")>>
Protocol == <<>>

InitOf(T) ==
  CASE T = "VmInfo" -> VmInfo
    [] T = "Cert" -> Cert
    [] T = "CertList" -> CertList
    [] T = "ExtensionSettings" -> ExtensionSettings
    [] T = "ExtensionProperties" -> ExtensionProperties
    [] T = "ExtensionVersionUri" -> ExtensionVersionUri
    [] T = "Extension" -> Extension
    [] T = "ExtensionList" -> ExtensionList
    [] T = "ExtensionPackageUri" -> ExtensionPackageUri
    [] T = "ExtensionPackage" -> ExtensionPackage
    [] T = "ExtensionPackageList" -> ExtensionPackageList
    [] T = "InstanceMetadata" -> InstanceMetadata
    [] T = "VMProperties" -> VMProperties
    [] T = "ProvisionStatus" -> ProvisionStatus
    [] T = "VMAgentStatus" -> VMAgentStatus
    [] T = "ExtensionSubStatus" -> ExtensionSubStatus
    [] T = "ExtensionStatus" -> ExtensionStatus
    [] T = "ExtensionHandlerStatus" -> ExtensionHandlerStatus
    [] T = "VMStatus" -> VMStatus
    [] T = "TelemetryEventParam" -> TelemetryEventParam
    [] T = "TelemetryEvent" -> TelemetryEvent
    [] T = "TelemetryEventList" -> TelemetryEventList
    [] T = "Protocol" -> Protocol

RECURSIVE Construct(_, _, _), InitAttrs(_, _, _, _, _)
RECURSIVE set_properties(_, _, _), InflateProps(_, _, _, _, _)
RECURSIVE InflateList(_, _, _, _), InflateItem(_, _, _)
RECURSIVE get_properties(_, _), DeflateProps(_, _, _, _, _)
RECURSIVE DeflateList(_, _, _, _)
RECURSIVE Reify(_, _), View(_, _)

\* T(x, x, ...): allocate the instance, then run its __init__ attribute by
\* attribute with every constructor argument x
Construct(h, T, x) ==
  LET a == Len(h) + 1
  IN [heap |-> InitAttrs(Append(h, ObjCell(T)), a, InitOf(T), 1, x), addr |-> a]

InitAttrs(h, a, fds, i, x) ==
  IF i > Len(fds) THEN h
  ELSE LET fd == fds[i]
       IN CASE fd.kind = "scalar" ->
                 InitAttrs(SetAttr(h, a, fd.name, IF fd.arg THEN x ELSE NoneS),
                           a, fds, i + 1, x)
            [] fd.kind = "entity" ->
                 LET r == Construct(h, fd.type, NoneS)
                 IN InitAttrs(SetAttr(r.heap, a, fd.name, Ref(r.addr)), a, fds, i + 1, x)
            [] fd.kind = "list" ->
                 LET l == Len(h) + 1
                     h1 == Append(h, DataContractList(fd.type))
                 IN InitAttrs(SetAttr(h1, a, fd.name, Ref(l)), a, fds, i + 1, x)

\* T()
New(h, T) == Construct(h, T, NoneS)

(***************************************************************************)
(* isinstance tests of validata_param and of the two mappers.              *)
(***************************************************************************)
IsDataContract(h, v) == v.tag = "ref" /\ h[v.addr].kind = "obj"
IsDataContractList(h, v) == v.tag = "ref" /\ h[v.addr].kind = "dclist"
IsDict(d) == d.tag = "dict"
IsList(d) == d.tag = "list"

\* validata_param(name, val, expectedType): TRUE when it raises ProtocolError
validata_param(val, isExpected) == val.tag = "none" \/ ~isExpected

\* the slot a non-dict, non-list value of a mapping is stored as
ToSlot(d) ==
  CASE d.tag = "none" -> NoneS
    [] d.tag = "scalar" -> Scalar(d.val)
    [] OTHER -> Scalar("<object>")

\* vars(obj).items(): the attribute names in the order the build iterates.
\* A dict iterates in insertion order from Python 3.7 on and in an arbitrary
\* order before; order picks one of two iteration orders for the whole run.
Props(h, a) ==
  LET names == [i \in 1..Len(h[a].attrs) |-> h[a].attrs[i][1]]
  IN IF order = "insertion" THEN names ELSE Reverse(names)

Raise(h) == [heap |-> h, err |-> TRUE]
Return(h) == [heap |-> h, err |-> FALSE]

\* variant: val.insert(0, item)
M_AppendItem_front(h, l, item) == [h EXCEPT ![l].items = <<item>> \o @]

\* val.append(item), line 59
AppendItem(h, l, item) == [h EXCEPT ![l].items = Append(@, item)]

\* variant: data[name].insert(0, dataItem)
M_AppendDataItem_front(h, l, dataItem) == [h EXCEPT ![l].items = <<dataItem>> \o @]

\* data[name].append(dataItem), line 75
AppendDataItem(h, l, dataItem) == [h EXCEPT ![l].items = Append(@, dataItem)]

\* variant: setattr(obj, name, val), the value the attribute already holds
M_setattr_stale(h, a, name, newVal) == SetAttr(h, a, name, Lookup(h[a].attrs, name))

\* setattr(obj, name, newVal)
setattr(h, a, name, newVal) == SetAttr(h, a, name, ToSlot(newVal))

HasKey(data, name) == name \in DOMAIN data.items

\* variant: newVal = data.get(name)
M_getitem_default(data, name) ==
  [found |-> TRUE, val |-> IF HasKey(data, name) THEN data.items[name] ELSE VNone]

\* try: newVal = data[name] / except KeyError: continue
getitem(data, name) ==
  IF HasKey(data, name)
  THEN [found |-> TRUE, val |-> data.items[name]]
  ELSE [found |-> FALSE, val |-> VNone]

(***************************************************************************)
(* set_properties(obj, data).  obj is a slot, data a value; the result is  *)
(* the heap at the point of return or raise, and whether it raised.        *)
(***************************************************************************)
\* variant: a key of data that names no attribute is an error
M_set_properties_strict(h, obj, data) ==
  IF validata_param(obj, IsDataContract(h, obj)) THEN Raise(h)
  ELSE IF validata_param(data, IsDict(data)) THEN Raise(h)
  ELSE IF DOMAIN data.items \subseteq Names(h[obj.addr].attrs)
  THEN InflateProps(h, obj.addr, data, Props(h, obj.addr), 1)
  ELSE Raise(h)

\* variant: a failed validation returns instead of raising
M_set_properties_lenient(h, obj, data) ==
  IF validata_param(obj, IsDataContract(h, obj)) THEN Return(h)
  ELSE IF validata_param(data, IsDict(data)) THEN Return(h)
  ELSE InflateProps(h, obj.addr, data, Props(h, obj.addr), 1)

set_properties(h, obj, data) ==
  IF validata_param(obj, IsDataContract(h, obj)) THEN Raise(h)
  ELSE IF validata_param(data, IsDict(data)) THEN Raise(h)
  ELSE InflateProps(h, obj.addr, data, Props(h, obj.addr), 1)

\* the body of  for name, val in props.items()
InflateProps(h, a, data, names, i) ==
  IF i > Len(names) THEN Return(h)
  ELSE LET name == names[i]
           val == Lookup(h[a].attrs, name)
           got == getitem(data, name)
       IN IF ~got.found THEN InflateProps(h, a, data, names, i + 1)
          ELSE LET newVal == got.val
                   r == IF IsDict(newVal) THEN set_properties(h, val, newVal)
                        ELSE IF IsList(newVal)
                        THEN IF validata_param(val, IsDataContractList(h, val))
                             THEN Raise(h)
                             ELSE InflateList(h, val.addr, newVal.elems, 1)
                        ELSE Return(setattr(h, a, name, newVal))
               IN IF r.err THEN r
                  ELSE InflateProps(r.heap, a, data, names, i + 1)

\* for dataItem in newVal
InflateList(h, l, elems, j) ==
  IF j > Len(elems) THEN Return(h)
  ELSE LET r == InflateItem(h, l, elems[j])
       IN IF r.err THEN r ELSE InflateList(r.heap, l, elems, j + 1)

\* variant: item = val.itemType(); val.append(item); set_properties(item, dataItem)
M_InflateItem_appendfirst(h, l, dataItem) ==
  LET item == New(h, h[l].type)
  IN set_properties(AppendItem(item.heap, l, item.addr), Ref(item.addr), dataItem)

\* item = val.itemType(); set_properties(item, dataItem); val.append(item)
InflateItem(h, l, dataItem) ==
  LET item == New(h, h[l].type)
      r == set_properties(item.heap, Ref(item.addr), dataItem)
  IN IF r.err THEN r ELSE Return(AppendItem(r.heap, l, item.addr))

(***************************************************************************)
(* get_properties(obj): the heap after the call, whether it raised, and    *)
(* the address of the dict it returns.                                     *)
(***************************************************************************)
get_properties(h, obj) ==
  IF validata_param(obj, IsDataContract(h, obj))
  THEN [heap |-> h, err |-> TRUE, addr |-> 0]
  ELSE LET data == Len(h) + 1
       IN DeflateProps(Append(h, DictCell), obj.addr, data, Props(h, obj.addr), 1)

DeflateProps(h, a, data, names, i) ==
  IF i > Len(names) THEN [heap |-> h, err |-> FALSE, addr |-> data]
  ELSE LET name == names[i]
           val == Lookup(h[a].attrs, name)
       IN IF IsDataContract(h, val)
          THEN LET r == get_properties(h, val)
               IN IF r.err THEN r
                  ELSE DeflateProps(SetAttr(r.heap, data, name, Ref(r.addr)),
                                    a, data, names, i + 1)
          ELSE IF IsDataContractList(h, val)
          THEN LET l == Len(h) + 1
                   h1 == SetAttr(Append(h, ListCell), data, name, Ref(l))
                   r == DeflateList(h1, val.addr, l, 1)
               IN IF r.err THEN r
                  ELSE DeflateProps(r.heap, a, data, names, i + 1)
          ELSE DeflateProps(SetAttr(h, data, name, val), a, data, names, i + 1)

\* variant: data[name].extend(val), the items themselves
M_DeflateList_shallow(h, src, l, j) ==
  [heap |-> [h EXCEPT ![l].items = h[src].items], err |-> FALSE, addr |-> l]

\* for item in val: dataItem = get_properties(item); data[name].append(dataItem)
DeflateList(h, src, l, j) ==
  IF j > Len(h[src].items) THEN [heap |-> h, err |-> FALSE, addr |-> l]
  ELSE LET r == get_properties(h, Ref(h[src].items[j]))
       IN IF r.err THEN r
          ELSE DeflateList(AppendDataItem(r.heap, l, r.addr), src, l, j + 1)

(***************************************************************************)
(* Reading the heap back as values.  Reify is what a mapper sees when the  *)
(* structure at a slot is handed to it as data; View keeps the classes, so *)
(* that two entity graphs are equal field by field iff their views are.    *)
(***************************************************************************)
Reify(h, v) ==
  CASE v.tag = "none" -> VNone
    [] v.tag = "scalar" -> VS(v.val)
    [] v.tag = "ref" ->
         LET c == h[v.addr]
         IN CASE c.kind = "dict" ->
                   VDict([n \in Names(c.attrs) |-> Reify(h, Lookup(c.attrs, n))])
              [] c.kind \in {"list", "dclist"} ->
                   VList([i \in 1..Len(c.items) |-> Reify(h, Ref(c.items[i]))])
              [] c.kind = "obj" ->
                   VObj(c.type, [n \in Names(c.attrs) |-> Reify(h, Lookup(c.attrs, n))])

View(h, v) ==
  CASE v.tag = "none" -> VNone
    [] v.tag = "scalar" -> VS(v.val)
    [] v.tag = "ref" ->
         LET c == h[v.addr]
         IN CASE c.kind \in {"dict", "obj"} ->
                   [tag |-> c.kind, val |-> c.type,
                    items |-> [n \in Names(c.attrs) |-> View(h, Lookup(c.attrs, n))],
                    elems |-> <<>>]
              [] c.kind \in {"list", "dclist"} ->
                   [tag |-> c.kind, val |-> c.type, items |-> <<>>,
                    elems |-> [i \in 1..Len(c.items) |-> View(h, Ref(c.items[i]))]]

(***************************************************************************)
(* The mappings handed to set_properties.  They are built from the class   *)
(* declarations so that every shape the mapper distinguishes occurs under  *)
(* every kind of attribute: a scalar, None, a dict, a list, a missing key  *)
(* and a key no attribute matches.                                         *)
(***************************************************************************)
FieldNames(T) == {InitOf(T)[i].name : i \in 1..Len(InitOf(T))}
FieldOf(T, n) == InitOf(T)[CHOOSE i \in 1..Len(InitOf(T)) : InitOf(T)[i].name = n]
FirstName(T) == InitOf(T)[1].name
ListFields(T) == {n \in FieldNames(T) : FieldOf(T, n).kind = "list"}

EmptyDict == VDict(<<>>)
EmptyList == VList(<<>>)
Item(U, x) == VDict(FirstName(U) :> VS(x))
BadItem(U) == VDict(FirstName(U) :> EmptyDict)

\* x, y, x, ... of the given length
Alt(U, x, y, n) == [i \in 1..n |-> Item(U, IF i % 2 = 1 THEN x ELSE y)]

GoodLists(U) ==
  {Alt(U, "a", "b", n) : n \in 0..MaxLen} \cup {Alt(U, "b", "a", n) : n \in 1..MaxLen}
BadLists(U) ==
  {Append(Alt(U, "a", "b", j - 1), bad) : j \in 1..MaxLen, bad \in {VS("x"), BadItem(U)}}

SubMaps(U) ==
  {<<>>, FirstName(U) :> VS("a"), FirstName(U) :> EmptyDict, "bogus" :> VS("a")}
  \cup UNION {{n :> VList(<<Item(FieldOf(U, n).type, "a")>>),
               n :> VList(<<Item(FieldOf(U, n).type, "a"), VS("x")>>)} : n \in ListFields(U)}

ProbesFor(fd) ==
  CASE fd.kind = "scalar" -> {VS("a"), VNone, EmptyDict, EmptyList}
    [] fd.kind = "entity" ->
         {VS("a"), VNone, EmptyList} \cup {VDict(m) : m \in SubMaps(fd.type)}
    [] fd.kind = "list" ->
         {VS("a"), EmptyDict}
         \cup {VList(s) : s \in GoodLists(fd.type) \cup BadLists(fd.type)}

BogusProbes == {VS("a"), VDict("name" :> VS("a")), VList(<<VS("a")>>)}

\* a value of the wrong shape for the attribute
BadFor(fd) ==
  CASE fd.kind = "scalar" -> EmptyDict
    [] fd.kind = "entity" -> EmptyList
    [] fd.kind = "list" -> VList(<<Item(fd.type, "a"), VS("x")>>)

RECURSIVE Full(_, _)
\* every attribute given: scalars x, nested entities in full, lists of MaxLen items
Full(T, x) ==
  VDict([n \in FieldNames(T) |->
           LET fd == FieldOf(T, n)
           IN CASE fd.kind = "scalar" -> VS(x)
                [] fd.kind = "entity" -> Full(fd.type, x)
                [] fd.kind = "list" ->
                     VList([i \in 1..MaxLen |->
                              Full(fd.type, IF i % 2 = 1 THEN "a" ELSE "b")])])

Inputs(T) ==
  UNION {{VDict(n :> p) : p \in ProbesFor(FieldOf(T, n))} : n \in FieldNames(T)}
  \cup {VDict("bogus" :> p) : p \in BogusProbes}
  \cup UNION {{VDict((n1 :> VS("b")) @@ (n2 :> BadFor(FieldOf(T, n2)))) :
                 n2 \in FieldNames(T) \ {n1}} : n1 \in FieldNames(T)}
  \cup {Full(T, "a"), VDict(Full(T, "a").items @@ ("bogus" :> EmptyDict))}

(***************************************************************************)
(* The program: an entity is constructed, then mappers are called on it.   *)
(***************************************************************************)
RootTypes == {"Cert", "CertList", "Extension", "ExtensionPackageList"}

\* what the last call was: its kind, the mapping it was given, whether it raised;
\* clean: no call so far raised; same: it repeats the call before it
Op(op, data, err) ==
  [op |-> op, data |-> data, err |-> err, n |-> last.n + 1,
   clean |-> last.clean /\ ~err,
   same |-> last.op = op /\ last.data = data /\ ~last.err /\ ~err]

Init ==
  /\ rootType \in RootTypes
  /\ order \in {"insertion", "reversed"}
  /\ \E x \in {NoneS, Scalar("c")} : heap = Construct(<<>>, rootType, x).heap
  /\ root = 1
  /\ copy = 0
  /\ out = 0
  /\ last = [op |-> "new", data |-> VNone, err |-> FALSE, n |-> 0,
             clean |-> TRUE, same |-> FALSE]
  /\ pre = <<>>

\* set_properties(root, data)
Inflate(data) ==
  /\ last.n < MaxOps
  /\ LET r == set_properties(heap, Ref(root), data)
     IN /\ heap' = r.heap
        /\ last' = Op("inflate", data, r.err)
  /\ pre' = heap
  /\ UNCHANGED <<root, rootType, copy, out, order>>

\* out = get_properties(root)
Deflate ==
  /\ last.n < MaxOps
  /\ LET r == get_properties(heap, Ref(root))
     IN /\ heap' = r.heap
        /\ out' = r.addr
        /\ last' = Op("deflate", VNone, r.err)
  /\ pre' = heap
  /\ UNCHANGED <<root, rootType, copy, order>>

\* out = get_properties(root); copy = type(root)(); set_properties(copy, out)
RoundTrip ==
  /\ last.n < MaxOps
  /\ LET d == get_properties(heap, Ref(root))
         b == New(d.heap, rootType)
         data == Reify(b.heap, Ref(d.addr))
         r == set_properties(b.heap, Ref(b.addr), data)
     IN /\ heap' = r.heap
        /\ out' = d.addr
        /\ copy' = b.addr
        /\ last' = Op("roundtrip", data, d.err \/ r.err)
  /\ pre' = heap
  /\ UNCHANGED <<root, rootType, order>>

Next ==
  \/ \E data \in Inputs(rootType) : Inflate(data)
  \/ Deflate
  \/ RoundTrip

Spec == Init /\ [][Next]_vars

(***************************************************************************)
(* Reading states for the properties below.                                *)
(***************************************************************************)
Attr(h, a, n) == Lookup(h[a].attrs, n)
AttrNames(h, a) == Names(h[a].attrs)
Items(h, v) == h[v.addr].items

RECURSIVE Reach(_, _)
\* the addresses of the cells reachable from a slot
Reach(h, v) ==
  IF v.tag # "ref" THEN {}
  ELSE {v.addr}
       \cup UNION {Reach(h, h[v.addr].attrs[i][2]) : i \in 1..Len(h[v.addr].attrs)}
       \cup UNION {Reach(h, Ref(h[v.addr].items[i])) : i \in 1..Len(h[v.addr].items)}

\* every old cell reachable from v is the same cell with the same contents
Untouched(h0, h1, v) == \A a \in Reach(h0, v) : h1[a] = h0[a]

RECURSIVE AllSet(_, _)
\* no attribute at any depth below v is None
AllSet(h, v) ==
  /\ v.tag # "none"
  /\ v.tag = "ref" =>
       /\ \A i \in 1..Len(h[v.addr].attrs) : AllSet(h, h[v.addr].attrs[i][2])
       /\ \A i \in 1..Len(h[v.addr].items) : AllSet(h, Ref(h[v.addr].items[i]))

\* a fresh instance of U populated from one element: whether that raises, and its view
Blank(U) == New(<<>>, U)
Populated(U, e) ==
  LET r == set_properties(Blank(U).heap, Ref(1), e)
  IN [err |-> r.err, view |-> View(r.heap, Ref(1))]

\* the position of the first element of a sequence whose item fails to build, or 0
FirstBad(U, elems) ==
  IF \E j \in 1..Len(elems) : Populated(U, elems[j]).err
  THEN CHOOSE j \in 1..Len(elems) :
         /\ Populated(U, elems[j]).err
         /\ \A i \in 1..(j - 1) : ~Populated(U, elems[i]).err
  ELSE 0


----------------------------------------------------------------------------
(***************************************************************************)
(* C1.  Inflating an attribute that holds a nested entity with a scalar    *)
(* value raises ProtocolError.                                             *)
(***************************************************************************)
C1_ScalarForEntityRaises ==
  (/\ last.op = "inflate"
   /\ \E n \in AttrNames(pre, root) :
        /\ IsDataContract(pre, Attr(pre, root, n))
        /\ HasKey(last.data, n)
        /\ last.data.items[n].tag = "scalar")
  => last.err

(***************************************************************************)
(* C2.  Round trip: when no attribute of E at any depth is unset,          *)
(* set_properties(type(E)(), get_properties(E)) does not raise and yields  *)
(* an instance equal to E attribute by attribute at every depth, typed     *)
(* lists included (length and order).                                      *)
(***************************************************************************)
C2_RoundTripIdentity ==
  (last.op = "roundtrip" /\ AllSet(pre, Ref(root)))
  => /\ ~last.err
     /\ View(heap, Ref(copy)) = View(heap, Ref(root))
     /\ View(heap, Ref(root)) = View(pre, Ref(root))

C2_Witness ==
  /\ last.op = "roundtrip"
  /\ rootType = "Extension"
  /\ AllSet(pre, Ref(root))
  /\ ~last.err
  /\ IsDataContract(heap, Attr(heap, root, "properties"))
  /\ IsDataContractList(heap, Attr(heap, root, "versionUris"))
  /\ Len(Items(heap, Attr(heap, copy, "versionUris"))) = MaxLen
  /\ Len(Items(heap, Attr(heap, Attr(heap, copy, "properties").addr, "extensions"))) = MaxLen
  /\ copy # root

(***************************************************************************)
(* C3.  Every attribute of the target (and of a nested entity the mapping  *)
(* descends into) whose name is not a key of the mapping holds after       *)
(* set_properties what it held before: the same scalar, the same nested    *)
(* entity with the same contents, the same list with the same items.  A    *)
(* mapping with none of the target's names raises nothing.                 *)
(***************************************************************************)
RECURSIVE MissingKept(_, _, _, _)
MissingKept(h0, h1, a, data) ==
  \A n \in AttrNames(h0, a) :
    IF ~HasKey(data, n)
    THEN /\ n \in AttrNames(h1, a)
         /\ Attr(h1, a, n) = Attr(h0, a, n)
         /\ Untouched(h0, h1, Attr(h0, a, n))
    ELSE (IsDict(data.items[n]) /\ IsDataContract(h0, Attr(h0, a, n)))
         => MissingKept(h0, h1, Attr(h0, a, n).addr, data.items[n])

C3_MissingKeysUntouched ==
  last.op = "inflate"
  => /\ MissingKept(pre, heap, root, last.data)
     /\ (DOMAIN last.data.items \cap AttrNames(pre, root) = {}) => ~last.err

C3_Witness ==
  /\ last.op = "inflate"
  /\ ~last.err
  /\ rootType = "Cert"
  /\ DOMAIN last.data.items = {"thumbprint"}
  /\ Attr(pre, root, "name") = Scalar("a")
  /\ Attr(heap, root, "name") = Scalar("a")
  /\ Attr(pre, root, "thumbprint") = Scalar("a")
  /\ Attr(heap, root, "thumbprint") = NoneS

(***************************************************************************)
(* C4.  Keys of the mapping that no attribute matches never make           *)
(* set_properties raise and never add an attribute: the call does exactly  *)
(* what it does on the mapping with those keys removed, and every object   *)
(* keeps the attribute names its class declares.                           *)
(***************************************************************************)
RECURSIVE Strip(_, _, _)
\* d without the keys that the structure at v has no attribute for
Strip(h, v, d) ==
  IF IsDict(d) /\ IsDataContract(h, v)
  THEN VDict([n \in DOMAIN d.items \cap AttrNames(h, v.addr) |->
                Strip(h, Attr(h, v.addr, n), d.items[n])])
  ELSE IF IsList(d) /\ IsDataContractList(h, v)
  THEN VList([i \in 1..Len(d.elems) |->
                Strip(Blank(h[v.addr].type).heap, Ref(1), d.elems[i])])
  ELSE d

DeclaredNames(h) ==
  \A a \in 1..Len(h) :
    h[a].kind = "obj" => AttrNames(h, a) = FieldNames(h[a].type)

C4_UnknownKeysIgnored ==
  last.op = "inflate"
  => /\ LET r == set_properties(pre, Ref(root), Strip(pre, Ref(root), last.data))
        IN r.err = last.err /\ r.heap = heap
     /\ DeclaredNames(heap)
     /\ \A a \in 1..Len(pre) : AttrNames(heap, a) = AttrNames(pre, a)
     /\ (DOMAIN last.data.items \cap AttrNames(pre, root) = {})
          => ~last.err /\ heap = pre

C4_Witness ==
  /\ last.op = "inflate"
  /\ ~last.err
  /\ "bogus" \in DOMAIN last.data.items
  /\ DOMAIN last.data.items \cap AttrNames(pre, root) # {}
  /\ View(heap, Ref(root)) # View(pre, Ref(root))

(***************************************************************************)
(* C5.  A typed list holding items i1, i2, ... is deflated to the sequence *)
(* get_properties(i1), get_properties(i2), ... of the same length and      *)
(* order under the attribute's name, and inflating that sequence into a    *)
(* blank instance gives a typed list whose i-th item equals the i-th       *)
(* original item.                                                          *)
(***************************************************************************)
Deflated(h, item) ==
  LET r == get_properties(h, Ref(item))
  IN Reify(r.heap, Ref(r.addr))

RECURSIVE DeflatedInOrder(_, _, _)
\* d: the address of the dict get_properties returned for the entity at a
DeflatedInOrder(h, a, d) ==
  \A n \in AttrNames(h, a) :
    LET v == Attr(h, a, n)
    IN /\ n \in AttrNames(h, d)
       /\ IsDataContractList(h, v) =>
            /\ Attr(h, d, n).tag = "ref"
            /\ h[Attr(h, d, n).addr].kind = "list"
            /\ Len(Items(h, Attr(h, d, n))) = Len(Items(h, v))
            /\ \A i \in 1..Len(Items(h, v)) :
                 /\ Reify(h, Ref(Items(h, Attr(h, d, n))[i])) = Deflated(h, Items(h, v)[i])
                 /\ DeflatedInOrder(h, Items(h, v)[i], Items(h, Attr(h, d, n))[i])
       /\ IsDataContract(h, v) =>
            /\ Attr(h, d, n).tag = "ref"
            /\ DeflatedInOrder(h, v.addr, Attr(h, d, n).addr)

RECURSIVE SameOrder(_, _, _)
\* the typed lists below b hold, position by position, items equal to those below a
SameOrder(h, a, b) ==
  \A n \in AttrNames(h, a) :
    LET v == Attr(h, a, n)
        w == Attr(h, b, n)
    IN /\ IsDataContractList(h, v) =>
            /\ IsDataContractList(h, w)
            /\ h[w.addr].type = h[v.addr].type
            /\ Len(Items(h, w)) = Len(Items(h, v))
            /\ \A i \in 1..Len(Items(h, v)) :
                 View(h, Ref(Items(h, w)[i])) = View(h, Ref(Items(h, v)[i]))
       /\ IsDataContract(h, v) =>
            /\ IsDataContract(h, w)
            /\ SameOrder(h, v.addr, w.addr)

C5_ListOrderPreserved ==
  /\ last.op \in {"deflate", "roundtrip"} => DeflatedInOrder(heap, root, out)
  /\ last.op = "roundtrip" => ~last.err /\ SameOrder(heap, root, copy)

C5_Witness ==
  /\ last.op = "roundtrip"
  /\ rootType = "CertList"
  /\ ~last.err
  /\ IsDataContractList(heap, Attr(heap, root, "certificates"))
  /\ LET l == Items(heap, Attr(heap, root, "certificates"))
         c == Items(heap, Attr(heap, copy, "certificates"))
     IN /\ Len(l) = MaxLen
        /\ Attr(heap, l[1], "name") = Scalar("b")
        /\ Attr(heap, l[2], "name") = Scalar("a")
        /\ Attr(heap, c[1], "name") = Scalar("b")
        /\ Attr(heap, c[2], "name") = Scalar("a")

(***************************************************************************)
(* C6.  set_properties raises whenever the mapping gives a dict for an     *)
(* attribute that holds no entity instance (None, a scalar, a typed list), *)
(* a list for an attribute that holds no typed list (None, a scalar, an    *)
(* entity), or a list for a typed list with an element that is no dict.    *)
(***************************************************************************)
RECURSIVE Mismatch(_, _, _)
Mismatch(h, a, data) ==
  \E n \in AttrNames(h, a) \cap DOMAIN data.items :
    LET v == Attr(h, a, n)
        d == data.items[n]
    IN \/ /\ IsDict(d)
          /\ \/ ~IsDataContract(h, v)
             \/ Mismatch(h, v.addr, d)
       \/ /\ IsList(d)
          /\ \/ ~IsDataContractList(h, v)
             \/ \E j \in 1..Len(d.elems) :
                  \/ ~IsDict(d.elems[j])
                  \/ Mismatch(Blank(h[v.addr].type).heap, 1, d.elems[j])

C6_MismatchRaises ==
  (last.op = "inflate" /\ Mismatch(pre, root, last.data)) => last.err

C6_Witness ==
  /\ last.op = "inflate"
  /\ last.err
  /\ rootType = "Extension"
  /\ Attr(pre, root, "name") = Scalar("c")
  /\ IsDataContractList(pre, Attr(pre, root, "versionUris"))
  /\ \/ HasKey(last.data, "name") /\ IsDict(last.data.items["name"])
     \/ HasKey(last.data, "versionUris") /\ IsDict(last.data.items["versionUris"])
     \/ HasKey(last.data, "properties") /\ IsList(last.data.items["properties"])

(***************************************************************************)
(* C7.  get_properties changes no cell of its input and returns a          *)
(* structure made of new cells only; a later set_properties on the same    *)
(* entity leaves the returned mapping as it was.                           *)
(***************************************************************************)
C7_DeflateFresh ==
  /\ last.op \in {"deflate", "roundtrip"} =>
       /\ \A a \in 1..Len(pre) : heap[a] = pre[a]
       /\ Reach(heap, Ref(out)) \subseteq (Len(pre) + 1)..Len(heap)
       /\ Reach(heap, Ref(out)) \cap Reach(heap, Ref(root)) = {}
  /\ (last.op = "inflate" /\ out # 0) =>
       /\ Reify(heap, Ref(out)) = Reify(pre, Ref(out))
       /\ Reach(heap, Ref(out)) \cap Reach(heap, Ref(root)) = {}

C7_Witness ==
  /\ last.op = "inflate"
  /\ ~last.err
  /\ out # 0
  /\ rootType = "Extension"
  /\ IsDataContractList(heap, Attr(heap, root, "versionUris"))
  /\ Len(Items(heap, Attr(heap, root, "versionUris"))) > 0
  /\ Len(Items(heap, Attr(heap, out, "versionUris"))) = 0

(***************************************************************************)
(* C8.  After set_properties calls that all returned without raising,      *)
(* every attribute constructed as a nested entity still holds that entity  *)
(* instance and every attribute constructed as a typed list still holds    *)
(* that list, with its item type.                                          *)
(***************************************************************************)
RECURSIVE Shaped(_, _, _)
Shaped(h, a, T) ==
  \A i \in 1..Len(InitOf(T)) :
    LET fd == InitOf(T)[i]
        v == Attr(h, a, fd.name)
    IN CASE fd.kind = "scalar" -> TRUE
         [] fd.kind = "entity" ->
              /\ IsDataContract(h, v)
              /\ h[v.addr].type = fd.type
              /\ Shaped(h, v.addr, fd.type)
         [] fd.kind = "list" ->
              /\ IsDataContractList(h, v)
              /\ h[v.addr].type = fd.type

C8_ShapePreserved ==
  last.clean
  => /\ Shaped(heap, root, rootType)
     /\ \A i \in 1..Len(InitOf(rootType)) :
          InitOf(rootType)[i].kind # "scalar"
          => Attr(heap, root, InitOf(rootType)[i].name)
               = Attr(Blank(rootType).heap, 1, InitOf(rootType)[i].name)

(***************************************************************************)
(* C9.  set_properties appends to typed lists and keeps them homogeneous.  *)
(* When a call that returns gives a sequence of n dicts for a typed list   *)
(* holding k items, the list then holds k+n items: the first k are the     *)
(* prior items, untouched and in their order; item k+i is a new instance   *)
(* of the list's item type populated from the i-th element.  Every element *)
(* of every typed list is always an instance of the list's item type, and  *)
(* giving the same mapping twice leaves each list with its items twice.    *)
(***************************************************************************)
Homogeneous(h) ==
  \A l \in 1..Len(h) :
    h[l].kind = "dclist"
    => \A i \in 1..Len(h[l].items) :
         h[h[l].items[i]].kind = "obj" /\ h[h[l].items[i]].type = h[l].type

RECURSIVE Appended(_, _, _, _)
Appended(h0, h1, a, data) ==
  \A n \in AttrNames(h0, a) \cap DOMAIN data.items :
    LET v == Attr(h0, a, n)
        d == data.items[n]
    IN /\ (IsList(d) /\ IsDataContractList(h0, v)) =>
            LET old == h0[v.addr].items
                new == h1[v.addr].items
                U == h0[v.addr].type
                k == Len(old)
            IN /\ Attr(h1, a, n) = v
               /\ h1[v.addr].kind = "dclist" /\ h1[v.addr].type = U
               /\ Len(new) = k + Len(d.elems)
               /\ \A i \in 1..k : new[i] = old[i] /\ Untouched(h0, h1, Ref(old[i]))
               /\ \A i \in 1..Len(d.elems) :
                    /\ new[k + i] > Len(h0)
                    /\ \A j \in 1..Len(new) : new[j] = new[k + i] => j = k + i
                    /\ h1[new[k + i]].kind = "obj"
                    /\ h1[new[k + i]].type = U
                    /\ View(h1, Ref(new[k + i])) = Populated(U, d.elems[i]).view
       /\ (IsDict(d) /\ IsDataContract(h0, v)) => Appended(h0, h1, v.addr, d)

RECURSIVE Doubled(_, _, _)
\* the last 2n items of each list given n elements are n items, then n equal items
Doubled(h, a, data) ==
  \A n \in AttrNames(h, a) \cap DOMAIN data.items :
    LET v == Attr(h, a, n)
        d == data.items[n]
    IN /\ (IsList(d) /\ IsDataContractList(h, v)) =>
            LET its == h[v.addr].items
                m == Len(d.elems)
                k == Len(its) - 2 * m
            IN /\ k >= 0
               /\ \A i \in 1..m :
                    /\ its[k + i] # its[k + m + i]
                    /\ View(h, Ref(its[k + i])) = View(h, Ref(its[k + m + i]))
       /\ (IsDict(d) /\ IsDataContract(h, v)) => Doubled(h, v.addr, d)

C9_AppendsHomogeneous ==
  /\ Homogeneous(heap)
  /\ (last.op = "inflate" /\ ~last.err) => Appended(pre, heap, root, last.data)
  /\ (last.op = "inflate" /\ last.same) => Doubled(heap, root, last.data)

C9_Witness ==
  /\ last.op = "inflate"
  /\ last.same
  /\ rootType = "CertList"
  /\ IsDataContractList(pre, Attr(pre, root, "certificates"))
  /\ LET l == Items(heap, Attr(heap, root, "certificates"))
     IN /\ Len(Items(pre, Attr(pre, root, "certificates"))) = MaxLen
        /\ Len(l) = 2 * MaxLen
        /\ Attr(heap, l[1], "name") = Scalar("b")
        /\ Attr(heap, l[2], "name") = Scalar("a")
        /\ Attr(heap, l[MaxLen + 1], "name") = Scalar("b")

(***************************************************************************)
(* C10.  set_properties is not atomic.  When the first attribute (in the   *)
(* order the call visits them) to fail is a typed list given a sequence    *)
(* whose element j is no dict or does not fit the item type, the call      *)
(* raises with the items built from elements 1..j-1 appended to the list   *)
(* and the item for element j not appended, and the scalars given for the  *)
(* attributes visited before it are assigned.                              *)
(***************************************************************************)
\* visiting attribute n of the entity at a raises
FieldFails(h, a, n, data) ==
  /\ HasKey(data, n)
  /\ LET v == Attr(h, a, n)
         d == data.items[n]
     IN \/ IsDict(d) /\ set_properties(h, v, d).err
        \/ /\ IsList(d)
           /\ \/ ~IsDataContractList(h, v)
              \/ FirstBad(h[v.addr].type, d.elems) # 0

C10_NoRollback ==
  last.op = "inflate"
  => LET names == Props(pre, root)
     IN \A f \in 1..Len(names) :
          LET n == names[f]
              v == Attr(pre, root, n)
          IN (/\ FieldFails(pre, root, n, last.data)
              /\ \A i \in 1..(f - 1) : ~FieldFails(pre, root, names[i], last.data)
              /\ IsList(last.data.items[n])
              /\ IsDataContractList(pre, v))
             => LET elems == last.data.items[n].elems
                    U == pre[v.addr].type
                    j == FirstBad(U, elems)
                    old == pre[v.addr].items
                    new == heap[v.addr].items
                IN /\ last.err
                   /\ Attr(heap, root, n) = v
                   /\ Len(new) = Len(old) + j - 1
                   /\ \A i \in 1..Len(old) : new[i] = old[i]
                   /\ \A i \in 1..(j - 1) :
                        /\ new[Len(old) + i] > Len(pre)
                        /\ View(heap, Ref(new[Len(old) + i])) = Populated(U, elems[i]).view
                   /\ \A i \in 1..(f - 1) :
                        (/\ HasKey(last.data, names[i])
                         /\ ~IsDict(last.data.items[names[i]])
                         /\ ~IsList(last.data.items[names[i]]))
                        => Attr(heap, root, names[i]) = ToSlot(last.data.items[names[i]])

C10_Witness ==
  /\ last.op = "inflate"
  /\ last.err
  /\ rootType = "Extension"
  /\ Attr(pre, root, "name") = Scalar("a")
  /\ Attr(heap, root, "name") = Scalar("b")
  /\ IsDataContractList(pre, Attr(pre, root, "versionUris"))
  /\ Len(Items(pre, Attr(pre, root, "versionUris"))) = MaxLen
  /\ Len(Items(heap, Attr(heap, root, "versionUris"))) = MaxLen + 1

====
